---- MODULE Spec2Model ----
(***************************************************************************)
(* Cart mutation reconciliation of the storefront template:                *)
(*   - the CartLinesAdd action (create-with-lines / add-lines),            *)
(*   - the cart route action (five cart actions dispatched by tag),        *)
(*   - instrumentEvent / diffLines, the analytics diff of two snapshots.   *)
(*                                                                         *)
(* Two specifications:                                                     *)
(*   SpecDiff  instrumentEvent applied to bounded inputs (pure function),  *)
(*   Spec      requests served one after another on one session.           *)
(***************************************************************************)
EXTENDS Integers, Sequences, FiniteSets, TLC

VARIABLES
    addingLines,    \* instrumentEvent input: requested CartLineInput[]
    prevLines,      \* instrumentEvent input: cart lines before the mutation
    currentLines,   \* instrumentEvent input: cart lines after the mutation
    outcome,        \* <<>>, or <<r>> with r what instrumentEvent returned
    uuidCounter,    \* number of ids crypto.randomUUID() has handed out
    sessionCartId,  \* session.get('cartId'); NoCart when the session has none
    carts,          \* the remote commerce system: lines of each cart id
    cartsCreated,   \* how many carts the remote system has created
    req,            \* per request: position in its action and its locals
    served,         \* number of requests accepted so far
    pending,        \* per consumer: responses of its submissions not yet delivered
    submitted,      \* per consumer: number of submissions made
    fetcherData,    \* per consumer: fetcher.data, <<>> while undefined
    effectRuns,     \* per consumer: runs of its effect on the present fetcher.data
    lastEventId,    \* per consumer: lastEventId.current, <<>> while undefined
    onSuccessCalls, \* per consumer: ids of the events onSuccess was called with
    confirmedLines, \* useOptimisticCartLinesAdding: its lines argument
    fetchers,       \* useFetchers(): the fetchers of the page
    stale,          \* an input changed and the hook has not run since
    memo,           \* useMemo: <<>>, or <<m>> with m the deps and value kept
    optimistic,     \* <<>>, or <<o>> with o what the hook last returned
    isInitialBuild, \* dev: no build has finished yet
    skipRebuildLogs,\* dev: rebuild logs are suppressed
    miniOxygen,     \* dev: <<>> while unassigned, else <<k>>: the k-th server started
    startCalls,     \* dev: number of calls of startMiniOxygen
    build,          \* dev: the watcher's current or last build
    finishing,      \* dev: position of each running onBuildFinish callback
    reloads,        \* dev: outcome of each .env change handled by onFileChanged
    builds          \* dev: number of builds started

diffVars == <<addingLines, prevLines, currentLines, outcome>>
requestVars == <<sessionCartId, carts, cartsCreated, req, served>>
consumerVars == <<pending, submitted, fetcherData, effectRuns, lastEventId,
                  onSuccessCalls>>
trackerVars == <<confirmedLines, fetchers, stale, memo, optimistic>>
devVars == <<isInitialBuild, skipRebuildLogs, miniOxygen, startCalls, build,
             finishing, reloads, builds>>

(***************************************************************************)
(* Bounds                                                                  *)
(***************************************************************************)
MaxLines == 2        \* longest cart snapshot drawn as an input
MaxAdding == 2       \* longest requested-lines array drawn as an input
MaxCarts == 2        \* carts the remote system can create
MaxRequests == 2     \* requests served in one behaviour
MaxSubmits == 2
MaxEffectRuns == 2
MaxBuilds == 3

(***************************************************************************)
(* Values                                                                  *)
(***************************************************************************)
NoValue == "undefined"

\* merchandise ids are strings; held as sequences of characters so that
\* split('/') has something to do
VariantA == <<"g", "/", "v", "/", "1">>
VariantB == <<"g", "/", "v", "/", "2">>
MerchandiseIds == {VariantA, VariantB}

\* line ids of the remote cart.  A line keeps its merchandise for life; two
\* lines (l1, l2) may hold the same variant (different attributes).
LineIdsInOrder == <<"l1", "l2", "l3">>
LineIds == { LineIdsInOrder[i] : i \in 1..Len(LineIdsInOrder) }
LineMerchandise == [l \in LineIds |-> IF l = "l3" THEN VariantB ELSE VariantA]

Quantities == {1, 2}

\* CartLine as selected by CartLinesFragment: id, quantity, merchandise.id
CartLines ==
    { [id |-> l, quantity |-> q, merchandise |-> [id |-> LineMerchandise[l]]] :
        l \in LineIds, q \in Quantities }

\* CartLineInput: merchandiseId, quantity
CartLineInputs == [merchandiseId : MerchandiseIds, quantity : {1}]

SeqsUpTo(S, n) == UNION { [1..k -> S] : k \in 0..n }

\* a cart snapshot: line ids are unique within one cart
Snapshots ==
    { s \in SeqsUpTo(CartLines, MaxLines) :
        \A i, j \in 1..Len(s) : s[i].id = s[j].id => i = j }

(***************************************************************************)
(* fast-array-diff: diff(a, b, compareFunc).added                          *)
(*                                                                         *)
(* The library computes a shortest edit script (Myers) from a to b; the    *)
(* elements of b outside the longest common subsequence are `added`.       *)
(* Which of several longest common subsequences it keeps is left open      *)
(* here: diffAdded is the set of every `added` an LCS can give.            *)
(* eq[i, j] is compareFunc(a[i], b[j]).                                    *)
(***************************************************************************)
Max2(x, y) == IF x >= y THEN x ELSE y

lcsLength(m, n, eq) ==
    LET L[i \in 0..m, j \in 0..n] ==
            IF i = 0 \/ j = 0 THEN 0
            ELSE Max2(Max2(L[i-1, j], L[i, j-1]),
                      IF eq[i, j] THEN L[i-1, j-1] + 1 ELSE 0)
    IN  L

\* the sets of indices of b kept by some longest common subsequence
lcsKept(m, n, eq) ==
    LET L == lcsLength(m, n, eq)
        K[i \in 0..m, j \in 0..n] ==
            IF i = 0 \/ j = 0 THEN {{}}
            ELSE (IF L[i-1, j] = L[i, j] THEN K[i-1, j] ELSE {})
                 \cup (IF L[i, j-1] = L[i, j] THEN K[i, j-1] ELSE {})
                 \cup (IF eq[i, j] /\ L[i-1, j-1] + 1 = L[i, j]
                       THEN { S \cup {j} : S \in K[i-1, j-1] } ELSE {})
    IN  K[m, n]

RECURSIVE pickIndices(_, _, _)
\* the elements of b at the indices in S, from index i on, in b's order
pickIndices(b, S, i) ==
    IF i > Len(b) THEN <<>>
    ELSE (IF i \in S THEN <<b[i]>> ELSE <<>>) \o pickIndices(b, S, i + 1)

diffKept(a, b, eq) ==
    { pickIndices(b, kept, 1) : kept \in lcsKept(Len(a), Len(b), eq) }

diffAdded(a, b, eq) ==
    { pickIndices(b, (1..Len(b)) \ kept, 1) : kept \in lcsKept(Len(a), Len(b), eq) }

(***************************************************************************)
(* diffLines                                                               *)
(***************************************************************************)
\* DiffingLine projection of a snapshot: lines?.edges?.map(...) || []
\* (a snapshot is held as the sequence of its edges' nodes)
toDiffingLines(lines) ==
    [i \in 1..Len(lines) |->
        [id |-> lines[i].id,
         quantity |-> lines[i].quantity,
         merchandiseId |-> lines[i].merchandise.id]]

comparerByQuantityAlone(prevLine, line) == line.quantity <= prevLine.quantity

comparerStrictlyLess(prevLine, line) ==
    /\ prevLine.id = line.id
    /\ prevLine.merchandiseId = line.merchandiseId
    /\ line.quantity < prevLine.quantity

comparerQuantityAtLeast(prevLine, line) ==
    /\ prevLine.id = line.id
    /\ prevLine.merchandiseId = line.merchandiseId
    /\ line.quantity >= prevLine.quantity

comparerIgnoringQuantity(prevLine, line) ==
    /\ prevLine.id = line.id
    /\ prevLine.merchandiseId = line.merchandiseId

comparer(prevLine, line) ==
    /\ prevLine.id = line.id
    /\ prevLine.merchandiseId = line.merchandiseId
    /\ line.quantity <= prevLine.quantity

comparerMatrix(prev, next) ==
    [i \in 1..Len(prev), j \in 1..Len(next) |-> comparer(prev[i], next[j])]

includesAnything(arr, x) == TRUE

\* Array.prototype.includes
includes(arr, x) == \E i \in 1..Len(arr) : arr[i] = x

notAddedFilterFlipped(line, linesAddedIds) == includes(linesAddedIds, line.merchandiseId)

\* the filter callback of linesNotAdded
notAddedFilter(line, linesAddedIds) == ~ includes(linesAddedIds, line.merchandiseId)

\* every {linesAdded, linesNotAdded} diffLines can return
diffLines(adding, prevL, currentL) ==
    LET prev == toDiffingLines(prevL)
        next == toDiffingLines(currentL)
    IN  { LET linesAdded == added
              linesAddedIds == [i \in 1..Len(linesAdded) |-> linesAdded[i].merchandiseId]
              linesNotAdded == SelectSeq(adding, LAMBDA l : notAddedFilter(l, linesAddedIds))
          IN  [linesAdded |-> linesAdded, linesNotAdded |-> linesNotAdded]
          : added \in diffAdded(prev, next, comparerMatrix(prev, next)) }

(***************************************************************************)
(* instrumentEvent                                                         *)
(***************************************************************************)
RECURSIVE split(_, _)
\* String.prototype.split(sep): the pieces of str between occurrences of sep
split(str, sep) ==
    IF \A i \in 1..Len(str) : str[i] # sep THEN <<str>>
    ELSE LET k == CHOOSE i \in 1..Len(str) :
                     str[i] = sep /\ \A j \in 1..(i-1) : str[j] # sep
         IN  <<SubSeq(str, 1, k - 1)>> \o split(SubSeq(str, k + 1, Len(str)), sep)

\* Array.prototype.pop's return value
pop(arr) == IF Len(arr) = 0 THEN <<NoValue>> ELSE arr[Len(arr)]

errorMessageWholeId(line) == line.merchandiseId

errorMessage(line) == pop(split(line.merchandiseId, "/"))

\* every {event, errors} instrumentEvent can return; uuid is the fresh id.
\* The diff field keeps what diffLines returned, for the properties.
instrumentEvent(adding, currentL, prevL, uuid) ==
    { LET event == [type |-> "lines_add",
                    id |-> uuid,
                    payload |-> [linesAdded |-> d.linesAdded]]
          errors == IF Len(d.linesNotAdded) # 0
                    THEN [i \in 1..Len(d.linesNotAdded) |->
                            [code |-> "LINE_NOT_ADDED",
                             message |-> errorMessage(d.linesNotAdded[i])]]
                    ELSE <<>>
      IN  [event |-> event, errors |-> errors, diff |-> d]
      : d \in diffLines(adding, prevL, currentL) }

\* crypto.randomUUID(): a value never returned before
randomUUID == uuidCounter + 1

(***************************************************************************)
(* Consumers: CartLinesAddForm and useCartLinesAdd                          *)
(*                                                                         *)
(* Each consumer owns a fetcher and a lastEventId ref.  A submission is     *)
(* answered by the action with {errors} or with {event, errors}, the event  *)
(* carrying a fresh id; the responses of one consumer reach its fetcher in  *)
(* any order, and the effect runs after any render.                        *)
(***************************************************************************)
Consumers == {"CartLinesAddForm", "useCartLinesAdd"}

\* the state of both consumers after mounting
ConsumersMounted ==
    /\ pending = [c \in Consumers |-> {}]
    /\ submitted = [c \in Consumers |-> 0]
    /\ fetcherData = [c \in Consumers |-> <<>>]
    /\ effectRuns = [c \in Consumers |-> 0]
    /\ lastEventId = [c \in Consumers |-> <<>>]
    /\ onSuccessCalls = [c \in Consumers |-> <<>>]

\* the body of a response of the action: {errors} or {event, errors}
errorsData == [event |-> <<>>]
eventData(uuid) == [event |-> << [type |-> "lines_add", id |-> uuid] >>]

\* fetcher?.data?.event
dataEvent(data) == IF data = <<>> THEN <<>> ELSE data[1].event

\* fetcher?.data?.event?.id
dataEventId(data) == IF dataEvent(data) = <<>> THEN <<>> ELSE <<dataEvent(data)[1].id>>

\* the form is posted, or cartLinesAdd calls fetcher.submit, and the action
\* answers with an event of a fresh id
SubmitAnsweredWithEvent(c) ==
    /\ submitted[c] < MaxSubmits
    /\ submitted' = [submitted EXCEPT ![c] = @ + 1]
    /\ pending' = [pending EXCEPT ![c] = @ \cup {eventData(randomUUID)}]
    /\ uuidCounter' = randomUUID
    /\ UNCHANGED <<fetcherData, effectRuns, lastEventId, onSuccessCalls>>
    /\ UNCHANGED diffVars
    /\ UNCHANGED requestVars
    /\ UNCHANGED trackerVars
    /\ UNCHANGED devVars

\* the same, answered with {errors} alone
SubmitAnsweredWithErrors(c) ==
    /\ submitted[c] < MaxSubmits
    /\ submitted' = [submitted EXCEPT ![c] = @ + 1]
    /\ pending' = [pending EXCEPT ![c] = @ \cup {errorsData}]
    /\ UNCHANGED <<uuidCounter, fetcherData, effectRuns, lastEventId, onSuccessCalls>>
    /\ UNCHANGED diffVars
    /\ UNCHANGED requestVars
    /\ UNCHANGED trackerVars
    /\ UNCHANGED devVars

\* a response reaches the fetcher: fetcher.data becomes its body
Deliver(c) ==
    /\ \E data \in pending[c] :
         /\ fetcherData' = [fetcherData EXCEPT ![c] = <<data>>]
         /\ pending' = [pending EXCEPT ![c] = @ \ {data}]
    /\ effectRuns' = [effectRuns EXCEPT ![c] = 0]
    /\ UNCHANGED <<uuidCounter, submitted, lastEventId, onSuccessCalls>>
    /\ UNCHANGED diffVars
    /\ UNCHANGED requestVars
    /\ UNCHANGED trackerVars
    /\ UNCHANGED devVars

formNeverDelivered(eventId, last) == FALSE

\* eventId === lastEventId.current
formAlreadyDelivered(eventId, last) == eventId = last

\* lastEventId.current === fetcher?.data?.event?.id
hookAlreadyDelivered(last, eventId) == last = eventId

\* onSuccess?.(event); lastEventId.current = event id
deliverOnce(c, eventId) ==
    /\ onSuccessCalls' = [onSuccessCalls EXCEPT ![c] = Append(@, eventId[1])]
    /\ lastEventId' = [lastEventId EXCEPT ![c] = eventId]

\* the effect of CartLinesAddForm, run after a render
FormEffect ==
    LET c == "CartLinesAddForm"
        eventId == dataEventId(fetcherData[c])
    IN  /\ effectRuns[c] < MaxEffectRuns
        /\ effectRuns' = [effectRuns EXCEPT ![c] = @ + 1]
        /\ IF eventId = <<>>
           THEN UNCHANGED <<lastEventId, onSuccessCalls>>
           ELSE IF formAlreadyDelivered(eventId, lastEventId[c])
                THEN UNCHANGED <<lastEventId, onSuccessCalls>>
                ELSE deliverOnce(c, eventId)
        /\ UNCHANGED <<uuidCounter, pending, submitted, fetcherData>>
        /\ UNCHANGED diffVars
        /\ UNCHANGED requestVars
        /\ UNCHANGED trackerVars
        /\ UNCHANGED devVars

\* the effect of useCartLinesAdd, run after a render
HookEffect ==
    LET c == "useCartLinesAdd"
        data == fetcherData[c]
    IN  /\ effectRuns[c] < MaxEffectRuns
        /\ effectRuns' = [effectRuns EXCEPT ![c] = @ + 1]
        /\ IF dataEvent(data) = <<>>
           THEN UNCHANGED <<lastEventId, onSuccessCalls>>
           ELSE IF hookAlreadyDelivered(lastEventId[c], dataEventId(data))
                THEN UNCHANGED <<lastEventId, onSuccessCalls>>
                ELSE deliverOnce(c, dataEventId(data))
        /\ UNCHANGED <<uuidCounter, pending, submitted, fetcherData>>
        /\ UNCHANGED diffVars
        /\ UNCHANGED requestVars
        /\ UNCHANGED trackerVars
        /\ UNCHANGED devVars

(***************************************************************************)
(* Requests: session, form data, remote commerce system                    *)
(***************************************************************************)
NoCart == 0
CartIds == 1..MaxCarts
Reqs == {"r1", "r2"}

\* a form field holding JSON: FormData.get gives null ("absent"), '' ("empty"),
\* text JSON.parse rejects ("malformed"), a JSON number, or a JSON array
Field(kind, value) == [kind |-> kind, value |-> value]
AbsentField == Field("absent", <<>>)
NonArrayFields ==
    { AbsentField, Field("empty", <<>>), Field("malformed", <<>>), Field("number", <<>>) }

\* CartLineUpdateInput: id, quantity
CartLineUpdateInputs == [id : {"l1", "l3"}, quantity : Quantities]

AddLinesFields ==
    NonArrayFields \cup { Field("array", v) : v \in SeqsUpTo(CartLineInputs, MaxAdding) }
UpdateLinesFields ==
    NonArrayFields \cup { Field("array", v) : v \in {<<>>} \cup { <<u>> : u \in CartLineUpdateInputs } }
LinesIdsFields ==
    NonArrayFields \cup { Field("array", v) : v \in { <<>>, <<"l1">>, <<"l3">> } }

\* redirectTo: not sent, a path of this site, or an absolute URL elsewhere
RedirectTos == {"absent", "/products/x", "https://other.example/"}

CartActions ==
    {"ADD_TO_CART", "REMOVE_FROM_CART", "UPDATE_CART", "UPDATE_DISCOUNT",
     "UPDATE_BUYER_IDENTITY"}

Form(cartAction, lines, linesIds, redirectTo) ==
    [cartAction |-> cartAction, lines |-> lines, linesIds |-> linesIds,
     redirectTo |-> redirectTo]

EmptyForm == Form("absent", AbsentField, AbsentField, "absent")

\* what a client can post to /cart/CartLinesAdd
LinesAddForms ==
    { Form("absent", l, AbsentField, t) : l \in AddLinesFields, t \in RedirectTos }

\* what a client can post to the cart route
RouteForms ==
    { Form("ADD_TO_CART", l, AbsentField, t) : l \in AddLinesFields, t \in RedirectTos }
    \cup { Form("REMOVE_FROM_CART", AbsentField, l, t) : l \in LinesIdsFields, t \in RedirectTos }
    \cup { Form("UPDATE_CART", l, AbsentField, t) : l \in UpdateLinesFields, t \in RedirectTos }
    \cup { Form(a, AbsentField, AbsentField, t) :
             a \in {"UPDATE_DISCOUNT", "UPDATE_BUYER_IDENTITY"}, t \in RedirectTos }
    \cup { Form(a, AbsentField, AbsentField, "absent") : a \in {"absent", "EMPTY_CART"} }

\* formData.get(name) ? JSON.parse(String(formData.get(name))) : []
fieldIsTruthy(field) == field.kind \notin {"absent", "empty"}
jsonParseThrows(field) == fieldIsTruthy(field) /\ field.kind = "malformed"
parsedArray(field) == IF field.kind = "array" THEN field.value ELSE <<>>
\* .length of the parsed value as invariant() sees it (undefined counts as 0)
parsedLength(field) == Len(parsedArray(field))

\* application-level errors of the remote API (userErrors)
UserErrors == << [code |-> "INVALID", message |-> <<"n", "o">>] >>

NoBody == [keys |-> {}, event |-> <<>>, errors |-> <<>>, cart |-> <<>>]

IdleReq ==
    [pc |-> "idle", route |-> "none", form |-> EmptyForm, cartId |-> NoCart,
     prevCart |-> <<>>, calls |-> <<>>, result |-> <<>>, instrumented |-> FALSE,
     sessionSet |-> FALSE, setCookie |-> <<>>, response |-> <<>>, failure |-> "none"]

Call(op, cartId) == [op |-> op, cartId |-> cartId]

(***************************************************************************)
(* The remote commerce system (cartCreate / cartLinesAdd / cart query)     *)
(***************************************************************************)
Cart(id, lines) == [id |-> id, lines |-> lines]

lineIndexOf(snapshot, merchandiseId) ==
    { i \in 1..Len(snapshot) : snapshot[i].merchandise.id = merchandiseId }

freeLineIds(snapshot, merchandiseId) ==
    { l \in LineIds : /\ LineMerchandise[l] = merchandiseId
                      /\ \A i \in 1..Len(snapshot) : snapshot[i].id # l }

\* the carts one requested line can lead to: its quantity is merged into a
\* line of that variant, or it becomes a line of its own
remoteAddOne(snapshot, input) ==
    { [snapshot EXCEPT ![i].quantity = @ + input.quantity] :
        i \in { k \in lineIndexOf(snapshot, input.merchandiseId) :
                  snapshot[k].quantity + input.quantity \in Quantities } }
    \cup
    { Append(snapshot, [id |-> l, quantity |-> input.quantity,
                        merchandise |-> [id |-> input.merchandiseId]]) :
        l \in { LineIdsInOrder[k] : k \in
                  { n \in 1..Len(LineIdsInOrder) :
                      /\ Len(snapshot) < MaxLines
                      /\ LineIdsInOrder[n] \in freeLineIds(snapshot, input.merchandiseId)
                      /\ \A o \in 1..(n - 1) :
                            LineIdsInOrder[o] \notin
                              freeLineIds(snapshot, input.merchandiseId) } } }

RECURSIVE remoteAddLines(_, _, _)
\* the carts lines[i..] can lead to; the remote system may leave any
\* requested line out without reporting an error
remoteAddLines(snapshot, lines, i) ==
    IF i > Len(lines) THEN {snapshot}
    ELSE UNION { remoteAddLines(s, lines, i + 1) :
                   s \in {snapshot} \cup remoteAddOne(snapshot, lines[i]) }

\* what a remote mutation on an existing cart returns, with the lines the
\* cart holds afterwards: user errors (cart null or untouched), or the cart
remoteOutcomes(cartId, before, afters) ==
    { [lines |-> before, result |-> [cart |-> c, errors |-> UserErrors]] :
        c \in {<<>>, <<Cart(cartId, before)>>} }
    \cup
    { [lines |-> after, result |-> [cart |-> <<Cart(cartId, after)>>, errors |-> <<>>]] :
        after \in afters }

\* what cartCreate returns: user errors with no cart, or
\* (with room for one more cart) the created cart holding `lines`
remoteCreateOutcomes(lines) ==
    { [id |-> NoCart, lines |-> <<>>,
       result |-> [cart |-> <<>>, errors |-> UserErrors]] }
    \cup
    { [id |-> cartsCreated + 1, lines |-> created,
       result |-> [cart |-> <<Cart(cartsCreated + 1, created)>>, errors |-> <<>>]] :
        created \in IF cartsCreated < MaxCarts THEN remoteAddLines(<<>>, lines, 1)
                    ELSE {} }

remoteCommitCreate(out) ==
    IF out.id = NoCart THEN UNCHANGED <<carts, cartsCreated>>
    ELSE /\ carts' = [carts EXCEPT ![out.id] = out.lines]
         /\ cartsCreated' = out.id

(***************************************************************************)
(* CartLinesAdd action                                                     *)
(***************************************************************************)
\* isLocalPath(redirectTo) of ~/lib/utils
isLocalPath(redirectTo) == redirectTo = "/products/x"

Response(status, body, setCookie, location) ==
    [status |-> status, body |-> body, setCookie |-> setCookie, location |-> location]

\* json({errors: graphqlErrors})
errorsResponse(graphqlErrors) ==
    Response(200, [NoBody EXCEPT !.keys = {"errors"}, !.errors = <<graphqlErrors>>],
             <<>>, "none")

\* every [response, instrumented] linesAddResponse can give; redirect()
\* without a status answers 302
linesAddResponse(prevCart, cart, lines, form, headers, uuid) ==
    IF form.redirectTo # "absent" /\ isLocalPath(form.redirectTo)
    THEN { [response |-> Response(302, NoBody, headers, form.redirectTo),
            instrumented |-> FALSE] }
    ELSE LET prevL == IF prevCart = <<>> THEN <<>> ELSE prevCart[1].lines
         IN  { [response |->
                  Response(200,
                           [NoBody EXCEPT !.keys = {"event", "errors"},
                                          !.event = <<ie.event>>,
                                          !.errors = <<ie.errors>>],
                           headers, "none"),
                instrumented |-> TRUE]
               : ie \in instrumentEvent(lines, cart.lines, prevL, uuid) }

AbortAnswered(r, why) ==
    req' = [req EXCEPT ![r].pc = "done", ![r].failure = why,
                       ![r].response = <<errorsResponse(UserErrors)>>]

\* a throw inside the action: nothing catches it, the action rejects
Abort(r, why) ==
    req' = [req EXCEPT ![r].pc = "aborted", ![r].failure = why]

linesNeverMissing(field) == TRUE

\* invariant(lines.length, ...)
hasLines(field) == parsedLength(field) # 0

alwaysCreate(cartId) == TRUE

\* if (!cartId)
noCartYet(cartId) == cartId = NoCart

\* request.formData(), session.get('cartId'), the lines invariant and the
\* first remote call of the flow
BeginLinesAdd(r, form) ==
    /\ req[r].pc = "idle"
    /\ served < MaxRequests
    /\ served' = served + 1
    /\ LET lines == form.lines
           cartId == sessionCartId
           started == [IdleReq EXCEPT !.route = "CartLinesAdd", !.form = form,
                                      !.cartId = cartId]
       IN  req' = [req EXCEPT ![r] =
             IF jsonParseThrows(lines)
             THEN [started EXCEPT !.pc = "aborted", !.failure = "SyntaxError"]
             ELSE IF ~ hasLines(lines)
             THEN [started EXCEPT !.pc = "aborted", !.failure = "No lines to add"]
             ELSE IF noCartYet(cartId)
             THEN [started EXCEPT !.pc = "cartCreate",
                                  !.calls = <<Call("cartCreate", NoCart)>>]
             ELSE [started EXCEPT !.pc = "getCartLines",
                                  !.calls = <<Call("getCartLines", cartId)>>]]
    /\ UNCHANGED <<sessionCartId, carts, cartsCreated, uuidCounter>>
    /\ UNCHANGED diffVars
    /\ UNCHANGED consumerVars
    /\ UNCHANGED trackerVars
    /\ UNCHANGED devVars

\* a remote call fails transport-side: the await throws
TransportFailure(r) ==
    /\ req[r].pc \in {"cartCreate", "getCartLines", "cartLinesAdd",
                     "routeCartCreate", "routeCartAdd", "routeCartRemove",
                     "routeCartUpdate", "routeDiscount", "routeBuyerIdentity",
                     "routeBuyerIdentityCreate"}
    /\ Abort(r, "ApiError")
    /\ UNCHANGED <<sessionCartId, carts, cartsCreated, uuidCounter, served>>
    /\ UNCHANGED diffVars
    /\ UNCHANGED consumerVars
    /\ UNCHANGED trackerVars
    /\ UNCHANGED devVars

errorsIgnored(graphqlErrors) == FALSE

\* if (graphqlErrors?.length)
hasErrors(graphqlErrors) == Len(graphqlErrors) # 0

headersWithoutCookie(id) == <<>>

\* headers.set('Set-Cookie', await session.commit()) once cartId is set to id
committedHeaders(id) == << [cartId |-> id] >>

\* Flow A: cartCreate returns; on a cart: session.set, session.commit,
\* linesAddResponse
LinesAddCartCreate(r) ==
    /\ req[r].pc = "cartCreate"
    /\ LET lines == parsedArray(req[r].form.lines)
       IN  \E out \in remoteCreateOutcomes(lines) :
             /\ remoteCommitCreate(out)
             /\ IF hasErrors(out.result.errors)
                THEN /\ req' = [req EXCEPT
                           ![r].pc = "done",
                           ![r].result = <<out.result>>,
                           ![r].response = <<errorsResponse(out.result.errors)>>]
                     /\ UNCHANGED <<sessionCartId, uuidCounter>>
                ELSE IF out.result.cart = <<>>
                THEN \* cart.id of a null cart
                     /\ req' = [req EXCEPT ![r].pc = "aborted",
                                           ![r].result = <<out.result>>,
                                           ![r].failure = "TypeError"]
                     /\ UNCHANGED <<sessionCartId, uuidCounter>>
                ELSE LET cart == out.result.cart[1]
                         headers == committedHeaders(cart.id)
                     IN  /\ sessionCartId' = cart.id
                         /\ \E res \in linesAddResponse(<<>>, cart, lines, req[r].form,
                                                        headers, randomUUID) :
                              /\ req' = [req EXCEPT
                                    ![r].pc = "done",
                                    ![r].result = <<out.result>>,
                                    ![r].sessionSet = TRUE,
                                    ![r].setCookie = headers,
                                    ![r].instrumented = res.instrumented,
                                    ![r].response = <<res.response>>]
                              /\ uuidCounter' = IF res.instrumented THEN randomUUID
                                                ELSE uuidCounter
    /\ UNCHANGED served
    /\ UNCHANGED diffVars
    /\ UNCHANGED consumerVars
    /\ UNCHANGED trackerVars
    /\ UNCHANGED devVars

queriedNothing(cartId) == <<>>

\* what getCartLines({cartId, context}) returns: the cart as it is now
queriedCart(cartId) == <<Cart(cartId, carts[cartId])>>

\* getCartLines returns the cart: the before snapshot; cartLinesAdd is issued
LinesAddGetCartLines(r) ==
    /\ req[r].pc = "getCartLines"
    /\ LET cartId == req[r].cartId
       IN  req' = [req EXCEPT
             ![r].pc = "cartLinesAdd",
             ![r].prevCart = queriedCart(cartId),
             ![r].calls = Append(@, Call("cartLinesAdd", cartId))]
    /\ UNCHANGED <<sessionCartId, carts, cartsCreated, uuidCounter, served>>
    /\ UNCHANGED diffVars
    /\ UNCHANGED consumerVars
    /\ UNCHANGED trackerVars
    /\ UNCHANGED devVars

\* Flow B: cartLinesAdd returns; on a cart: linesAddResponse
LinesAddCartLinesAdd(r) ==
    /\ req[r].pc = "cartLinesAdd"
    /\ LET lines == parsedArray(req[r].form.lines)
           cartId == req[r].cartId
       IN  \E out \in remoteOutcomes(cartId, carts[cartId],
                                     remoteAddLines(carts[cartId], lines, 1)) :
             /\ carts' = [carts EXCEPT ![cartId] = out.lines]
             /\ IF hasErrors(out.result.errors)
                THEN /\ req' = [req EXCEPT
                           ![r].pc = "done",
                           ![r].result = <<out.result>>,
                           ![r].response = <<errorsResponse(out.result.errors)>>]
                     /\ UNCHANGED uuidCounter
                ELSE IF out.result.cart = <<>>
                THEN \* cart.lines of a null cart
                     /\ req' = [req EXCEPT ![r].pc = "aborted",
                                           ![r].result = <<out.result>>,
                                           ![r].failure = "TypeError"]
                     /\ UNCHANGED uuidCounter
                ELSE \E res \in linesAddResponse(req[r].prevCart, out.result.cart[1],
                                                 lines, req[r].form, req[r].setCookie,
                                                 randomUUID) :
                       /\ req' = [req EXCEPT
                             ![r].pc = "done",
                             ![r].result = <<out.result>>,
                             ![r].instrumented = res.instrumented,
                             ![r].response = <<res.response>>]
                       /\ uuidCounter' = IF res.instrumented THEN randomUUID
                                         ELSE uuidCounter
    /\ UNCHANGED <<sessionCartId, cartsCreated, served>>
    /\ UNCHANGED diffVars
    /\ UNCHANGED consumerVars
    /\ UNCHANGED trackerVars
    /\ UNCHANGED devVars

(***************************************************************************)
(* Cart route action                                                       *)
(***************************************************************************)
\* cartLinesRemove: the lines whose id is not listed
remoteRemoveLines(snapshot, lineIds) ==
    SelectSeq(snapshot, LAMBDA l : ~ includes(lineIds, l.id))

\* cartLinesUpdate: listed lines get the listed quantity
remoteUpdateLines(snapshot, updateLines) ==
    [i \in 1..Len(snapshot) |->
        IF \E k \in 1..Len(updateLines) : updateLines[k].id = snapshot[i].id
        THEN [snapshot[i] EXCEPT !.quantity =
                updateLines[CHOOSE k \in 1..Len(updateLines) :
                              updateLines[k].id = snapshot[i].id].quantity]
        ELSE snapshot[i]]

routeResponseWithoutHeaders(form, result, headers) ==
    LET redirects == form.redirectTo # "absent" /\ isLocalPath(form.redirectTo)
    IN  Response(IF redirects THEN 303 ELSE 200,
                 [NoBody EXCEPT !.keys = {"cart", "errors"},
                                !.cart = result.cart,
                                !.errors = <<result.errors>>],
                 <<>>,
                 IF redirects THEN form.redirectTo ELSE "none")

\* the tail of the action: redirectTo, then json({cart, errors}, {status, headers})
routeResponse(form, result, headers) ==
    LET redirects == form.redirectTo # "absent" /\ isLocalPath(form.redirectTo)
    IN  Response(IF redirects THEN 303 ELSE 200,
                 [NoBody EXCEPT !.keys = {"cart", "errors"},
                                !.cart = result.cart,
                                !.errors = <<result.errors>>],
                 headers,
                 IF redirects THEN form.redirectTo ELSE "none")

routeUnknownActionFallsThrough(cartAction) == cartAction \notin {"absent"}

\* the case labels of switch (cartAction)
routeKnownAction(cartAction) == cartAction \in CartActions

\* invariant(cartId, 'Missing cartId') of UPDATE_DISCOUNT
discountHasCart(cartId) == cartId # NoCart

buyerIdentityNeverHasCart(cartId) == FALSE

\* result = cartId ? cartUpdateBuyerIdentity(...) : cartCreate(...)
buyerIdentityHasCart(cartId) == cartId # NoCart

\* request.formData(), the session reads, the case's invariants and the
\* remote call of the case
BeginRoute(r, form) ==
    /\ req[r].pc = "idle"
    /\ served < MaxRequests
    /\ served' = served + 1
    /\ LET cartAction == form.cartAction
           cartId == sessionCartId
           started == [IdleReq EXCEPT !.route = "cart", !.form = form,
                                      !.cartId = cartId]
           failed(why) == [started EXCEPT !.pc = "aborted", !.failure = why]
           calling(pc, op) == [started EXCEPT !.pc = pc,
                                              !.calls = <<Call(op, cartId)>>]
       IN  req' = [req EXCEPT ![r] =
             IF cartAction = "absent" THEN failed("No cartAction defined")
             ELSE IF ~ routeKnownAction(cartAction)
             THEN failed("cart action is not defined")
             ELSE IF cartAction = "ADD_TO_CART"
             THEN IF jsonParseThrows(form.lines) THEN failed("SyntaxError")
                  ELSE IF ~ hasLines(form.lines) THEN failed("No lines to add")
                  ELSE IF noCartYet(cartId)
                  THEN calling("routeCartCreate", "cartCreate")
                  ELSE calling("routeCartAdd", "cartAdd")
             ELSE IF cartAction = "REMOVE_FROM_CART"
             THEN IF jsonParseThrows(form.linesIds) THEN failed("SyntaxError")
                  ELSE IF ~ hasLines(form.linesIds)
                  THEN failed("No lines to remove")
                  ELSE calling("routeCartRemove", "cartRemove")
             ELSE IF cartAction = "UPDATE_CART"
             THEN IF jsonParseThrows(form.lines) THEN failed("SyntaxError")
                  ELSE IF ~ hasLines(form.lines)
                  THEN failed("No lines to update")
                  ELSE calling("routeCartUpdate", "cartUpdate")
             ELSE IF cartAction = "UPDATE_DISCOUNT"
             THEN IF ~ discountHasCart(cartId) THEN failed("Missing cartId")
                  ELSE calling("routeDiscount", "cartDiscountCodesUpdate")
             ELSE \* UPDATE_BUYER_IDENTITY
                  IF buyerIdentityHasCart(cartId)
                  THEN calling("routeBuyerIdentity", "cartUpdateBuyerIdentity")
                  ELSE calling("routeBuyerIdentityCreate", "cartCreate")]
    /\ UNCHANGED <<sessionCartId, carts, cartsCreated, uuidCounter>>
    /\ UNCHANGED diffVars
    /\ UNCHANGED consumerVars
    /\ UNCHANGED trackerVars
    /\ UNCHANGED devVars

\* session.set('cartId', result.cart.id); headers Set-Cookie; then the tail.
\* Reading .id of a null cart throws a TypeError.
routeStoreCartId(r, out) ==
    IF out.result.cart = <<>>
    THEN /\ req' = [req EXCEPT ![r].pc = "aborted",
                               ![r].result = <<out.result>>,
                               ![r].failure = "TypeError"]
         /\ UNCHANGED sessionCartId
    ELSE LET id == out.result.cart[1].id
             headers == committedHeaders(id)
         IN  /\ sessionCartId' = id
             /\ req' = [req EXCEPT
                   ![r].pc = "done",
                   ![r].result = <<out.result>>,
                   ![r].sessionSet = TRUE,
                   ![r].setCookie = headers,
                   ![r].response = <<routeResponse(req[r].form, out.result, headers)>>]

\* the tail alone, for the cases that do not touch the session
routeRespond(r, out) ==
    req' = [req EXCEPT
      ![r].pc = "done",
      ![r].result = <<out.result>>,
      ![r].response = <<routeResponse(req[r].form, out.result, req[r].setCookie)>>]

\* ADD_TO_CART, Flow A: cartCreate returns
RouteCartCreate(r) ==
    /\ req[r].pc = "routeCartCreate"
    /\ \E out \in remoteCreateOutcomes(parsedArray(req[r].form.lines)) :
         /\ remoteCommitCreate(out)
         /\ routeStoreCartId(r, out)
    /\ UNCHANGED <<uuidCounter, served>>
    /\ UNCHANGED diffVars
    /\ UNCHANGED consumerVars
    /\ UNCHANGED trackerVars
    /\ UNCHANGED devVars

\* ADD_TO_CART, Flow B: cartAdd returns
RouteCartAdd(r) ==
    /\ req[r].pc = "routeCartAdd"
    /\ LET cartId == req[r].cartId
       IN  \E out \in remoteOutcomes(cartId, carts[cartId],
                        remoteAddLines(carts[cartId],
                                       parsedArray(req[r].form.lines), 1)) :
             /\ carts' = [carts EXCEPT ![cartId] = out.lines]
             /\ routeRespond(r, out)
    /\ UNCHANGED <<sessionCartId, cartsCreated, uuidCounter, served>>
    /\ UNCHANGED diffVars
    /\ UNCHANGED consumerVars
    /\ UNCHANGED trackerVars
    /\ UNCHANGED devVars

\* a mutation sent without a cart id: the remote API refuses the request
\* (cartId is a required variable) and the await throws
remoteRefusesMissingCart(r) ==
    /\ Abort(r, "ApiError")
    /\ UNCHANGED carts

\* REMOVE_FROM_CART: cartRemove returns
RouteCartRemove(r) ==
    /\ req[r].pc = "routeCartRemove"
    /\ LET cartId == req[r].cartId
       IN  IF cartId = NoCart THEN remoteRefusesMissingCart(r)
           ELSE \E out \in remoteOutcomes(cartId, carts[cartId],
                             {remoteRemoveLines(carts[cartId],
                                                parsedArray(req[r].form.linesIds))}) :
                  /\ carts' = [carts EXCEPT ![cartId] = out.lines]
                  /\ routeRespond(r, out)
    /\ UNCHANGED <<sessionCartId, cartsCreated, uuidCounter, served>>
    /\ UNCHANGED diffVars
    /\ UNCHANGED consumerVars
    /\ UNCHANGED trackerVars
    /\ UNCHANGED devVars

\* UPDATE_CART: cartUpdate returns
RouteCartUpdate(r) ==
    /\ req[r].pc = "routeCartUpdate"
    /\ LET cartId == req[r].cartId
       IN  IF cartId = NoCart THEN remoteRefusesMissingCart(r)
           ELSE \E out \in remoteOutcomes(cartId, carts[cartId],
                             {remoteUpdateLines(carts[cartId],
                                                parsedArray(req[r].form.lines))}) :
                  /\ carts' = [carts EXCEPT ![cartId] = out.lines]
                  /\ routeRespond(r, out)
    /\ UNCHANGED <<sessionCartId, cartsCreated, uuidCounter, served>>
    /\ UNCHANGED diffVars
    /\ UNCHANGED consumerVars
    /\ UNCHANGED trackerVars
    /\ UNCHANGED devVars

\* UPDATE_DISCOUNT: cartDiscountCodesUpdate returns
RouteDiscount(r) ==
    /\ req[r].pc = "routeDiscount"
    /\ LET cartId == req[r].cartId
       IN  \E out \in remoteOutcomes(cartId, carts[cartId], {carts[cartId]}) :
             routeRespond(r, out)
    /\ UNCHANGED <<sessionCartId, carts, cartsCreated, uuidCounter, served>>
    /\ UNCHANGED diffVars
    /\ UNCHANGED consumerVars
    /\ UNCHANGED trackerVars
    /\ UNCHANGED devVars

\* UPDATE_BUYER_IDENTITY with a cart: cartUpdateBuyerIdentity returns
RouteBuyerIdentity(r) ==
    /\ req[r].pc = "routeBuyerIdentity"
    /\ LET cartId == req[r].cartId
       IN  \E out \in remoteOutcomes(cartId, carts[cartId], {carts[cartId]}) :
             routeStoreCartId(r, out)
    /\ UNCHANGED <<carts, cartsCreated, uuidCounter, served>>
    /\ UNCHANGED diffVars
    /\ UNCHANGED consumerVars
    /\ UNCHANGED trackerVars
    /\ UNCHANGED devVars

\* UPDATE_BUYER_IDENTITY without a cart: cartCreate({buyerIdentity}) returns
RouteBuyerIdentityCreate(r) ==
    /\ req[r].pc = "routeBuyerIdentityCreate"
    /\ \E out \in remoteCreateOutcomes(<<>>) :
         /\ remoteCommitCreate(out)
         /\ routeStoreCartId(r, out)
    /\ UNCHANGED <<uuidCounter, served>>
    /\ UNCHANGED diffVars
    /\ UNCHANGED consumerVars
    /\ UNCHANGED trackerVars
    /\ UNCHANGED devVars

\* the response (or the failure) has gone back to the client
Finish(r) ==
    /\ req[r].pc \in {"done", "aborted"}
    /\ req' = [req EXCEPT ![r] = IdleReq]
    /\ UNCHANGED <<sessionCartId, carts, cartsCreated, uuidCounter, served>>
    /\ UNCHANGED diffVars
    /\ UNCHANGED consumerVars
    /\ UNCHANGED trackerVars
    /\ UNCHANGED devVars

(***************************************************************************)
(* useCartLinesAddingFetcher, useOptimisticCartLinesAdding                  *)
(*                                                                         *)
(* The hook runs in every render of its component; a render follows every  *)
(* change of the confirmed lines or of the page's fetchers.                *)
(***************************************************************************)
ACTION_PATH == "/cart/CartLinesAdd"

\* typeof line?.merchandise?.id === 'undefined'
UndefinedId == <<>>

\* PartialDeep<CartLine>, as far as the hook reads it
TrackedLines == [merchandise : [id : MerchandiseIds \cup {UndefinedId}]]

\* the lines argument: undefined, or an array of lines
UndefinedLines == Field("undefined", <<>>)
ConfirmedInputs ==
    {UndefinedLines} \cup { Field("array", v) : v \in SeqsUpTo(TrackedLines, MaxLines) }

\* the optimisticLines form field of a submission
OptimisticFields ==
    { AbsentField, Field("empty", <<>>), Field("malformed", <<>>) }
    \cup { Field("array", v) : v \in SeqsUpTo(TrackedLines, MaxAdding) }

\* a fetcher: idle (no submission), or submitting formData to an action
IdleFetcher == [submission |-> <<>>]
Submitting(action, optimisticLines) ==
    [submission |-> << [action |-> action,
                        formData |-> [optimisticLines |-> optimisticLines]] >>]

\* fetchers of other forms of the page, ahead of the one looked at
OtherFetchers ==
    { IdleFetcher,
      Submitting("/cart", Field("array", << [merchandise |-> [id |-> VariantA]] >>)),
      Submitting(ACTION_PATH, AbsentField) }

FetcherLists ==
    {<<>>}
    \cup { <<Submitting(ACTION_PATH, f)>> : f \in OptimisticFields }
    \cup { <<g>> : g \in OtherFetchers }
    \cup { <<g, Submitting(ACTION_PATH, f)>> : g \in OtherFetchers, f \in OptimisticFields }

\* the hook before its component has rendered
TrackerUnmounted ==
    /\ confirmedLines = UndefinedLines
    /\ fetchers = <<>>
    /\ stale = TRUE
    /\ memo = <<>>
    /\ optimistic = <<>>

targetsAnyPath(fetcher) == fetcher.submission # <<>>

\* fetcher?.submission?.action === localizedActionPath
targetsActionPath(fetcher) ==
    /\ fetcher.submission # <<>>
    /\ fetcher.submission[1].action = ACTION_PATH

\* fetchers.find(...): <<>> when none matches, else the first that does
useCartLinesAddingFetcher(fs) ==
    LET found == { i \in 1..Len(fs) : targetsActionPath(fs[i]) }
    IN  IF found = {} THEN <<>>
        ELSE << fs[CHOOSE i \in found : \A j \in found : i <= j] >>

\* fetcher?.submission?.formData?.get('optimisticLines')
optimisticLinesStrOf(fetcher) ==
    IF fetcher = <<>> THEN AbsentField
    ELSE IF fetcher[1].submission = <<>> THEN AbsentField
    ELSE fetcher[1].submission[1].formData.optimisticLines

\* the comparer of the hook
trackerComparer(prevLine, line) ==
    IF prevLine.merchandise.id = UndefinedId THEN FALSE
    ELSE IF line.merchandise.id = UndefinedId THEN FALSE
    ELSE prevLine.merchandise.id = line.merchandise.id

OptimisticResult(optimisticLines, optimisticLinesNew, threw) ==
    [optimisticLines |-> optimisticLines, optimisticLinesNew |-> optimisticLinesNew,
     threw |-> threw]

noneNew(optimisticLines) == <<>>

\* result.optimisticLinesNew = optimisticLines
allNew(optimisticLines) == optimisticLines

\* !Array.isArray(lines) || !lines?.length
noLinesYet(lns) == lns.kind # "array" \/ Len(lns.value) = 0

\* the callback of useMemo: every result it can return; threw when
\* JSON.parse throws
optimisticCartLinesAdding(optimisticLinesStr, lns) ==
    IF ~ fieldIsTruthy(optimisticLinesStr)
    THEN { OptimisticResult(<<>>, <<>>, FALSE) }
    ELSE IF jsonParseThrows(optimisticLinesStr)
    THEN { OptimisticResult(<<>>, <<>>, TRUE) }
    ELSE LET optimisticLines == parsedArray(optimisticLinesStr)
         IN  IF Len(optimisticLines) = 0
             THEN { OptimisticResult(optimisticLines, <<>>, FALSE) }
             ELSE IF noLinesYet(lns)
             THEN { OptimisticResult(optimisticLines, allNew(optimisticLines), FALSE) }
             ELSE { OptimisticResult(optimisticLines, added, FALSE) :
                      added \in diffAdded(lns.value, optimisticLines,
                                 [i \in 1..Len(lns.value), j \in 1..Len(optimisticLines) |->
                                     trackerComparer(lns.value[i], optimisticLines[j])]) }

memoDepsWithoutLines(optimisticLinesStr, lns) == <<optimisticLinesStr>>

\* the dependencies of useMemo
memoDeps(optimisticLinesStr, lns) == <<optimisticLinesStr, lns>>

\* one run of the hook: the memoised value when the dependencies are those
\* of the last run, else the callback's result; a throw unmounts the hook
RunOptimisticHook ==
    LET optimisticLinesStr == optimisticLinesStrOf(useCartLinesAddingFetcher(fetchers))
        deps == memoDeps(optimisticLinesStr, confirmedLines)
    IN  /\ IF memo # <<>> /\ memo[1].deps = deps
           THEN /\ optimistic' = <<memo[1].value>>
                /\ UNCHANGED memo
           ELSE \E value \in optimisticCartLinesAdding(optimisticLinesStr, confirmedLines) :
                  /\ optimistic' = <<value>>
                  /\ memo' = IF value.threw THEN <<>>
                             ELSE << [deps |-> deps, value |-> value] >>
        /\ stale' = FALSE
        /\ UNCHANGED <<confirmedLines, fetchers>>
        /\ UNCHANGED uuidCounter
        /\ UNCHANGED diffVars
        /\ UNCHANGED requestVars
        /\ UNCHANGED consumerVars
        /\ UNCHANGED devVars

\* the component is given other confirmed lines
LinesChange(lns) ==
    /\ ~ stale
    /\ lns # confirmedLines
    /\ confirmedLines' = lns
    /\ stale' = TRUE
    /\ UNCHANGED <<fetchers, memo, optimistic>>
    /\ UNCHANGED uuidCounter
    /\ UNCHANGED diffVars
    /\ UNCHANGED requestVars
    /\ UNCHANGED consumerVars
    /\ UNCHANGED devVars

\* a submission starts or ends: useFetchers() returns other fetchers
FetchersChange(fs) ==
    /\ ~ stale
    /\ fs # fetchers
    /\ fetchers' = fs
    /\ stale' = TRUE
    /\ UNCHANGED <<confirmedLines, memo, optimistic>>
    /\ UNCHANGED uuidCounter
    /\ UNCHANGED diffVars
    /\ UNCHANGED requestVars
    /\ UNCHANGED consumerVars
    /\ UNCHANGED devVars

(***************************************************************************)
(* dev command: the callbacks runDev hands to the watcher                   *)
(*                                                                         *)
(* The watcher calls onBuildStart and onBuildFinish around each build and   *)
(* onFileChanged on a change; it does not wait for an async callback, so a  *)
(* callback suspended at an await runs on while later callbacks start.      *)
(***************************************************************************)
DevCallbacks == {"f1", "f2"}
FileKinds == {"env", "other"}

IdleBuild == [state |-> "idle", cause |-> "none", initial |-> FALSE, logged |-> FALSE]
IdleCallback == [pc |-> "idle", server |-> 0]

\* runDev just before watch() is called
DevStarting ==
    /\ isInitialBuild = TRUE
    /\ skipRebuildLogs = FALSE
    /\ miniOxygen = <<>>
    /\ startCalls = 0
    /\ build = IdleBuild
    /\ finishing = [f \in DevCallbacks |-> IdleCallback]
    /\ reloads = <<>>
    /\ builds = 0

\* onFileChanged(file): a .env file switches the rebuild logs off and
\* reloads the server (reading .reload of an unassigned miniOxygen throws);
\* the watcher then rebuilds
OnFileChanged(kind) ==
    /\ build.state = "idle"
    /\ builds > 0
    /\ builds < MaxBuilds
    /\ IF kind = "env"
       THEN /\ skipRebuildLogs' = TRUE
            /\ reloads' = Append(reloads, [server |-> miniOxygen])
       ELSE UNCHANGED <<skipRebuildLogs, reloads>>
    /\ build' = [IdleBuild EXCEPT !.state = "queued", !.cause = kind]
    /\ UNCHANGED <<isInitialBuild, miniOxygen, startCalls, finishing, builds>>
    /\ UNCHANGED uuidCounter
    /\ UNCHANGED diffVars
    /\ UNCHANGED requestVars
    /\ UNCHANGED consumerVars
    /\ UNCHANGED trackerVars

\* onBuildStart(): logs 'Rebuilding' unless initial or suppressed
OnBuildStart ==
    /\ \/ build.state = "queued"
       \/ build.state = "idle" /\ builds = 0
    /\ builds < MaxBuilds
    /\ builds' = builds + 1
    /\ build' = [state |-> "building",
                 cause |-> IF builds = 0 THEN "initial" ELSE build.cause,
                 initial |-> isInitialBuild,
                 logged |-> ~ isInitialBuild /\ ~ skipRebuildLogs]
    /\ UNCHANGED <<isInitialBuild, skipRebuildLogs, miniOxygen, startCalls,
                   finishing, reloads>>
    /\ UNCHANGED uuidCounter
    /\ UNCHANGED diffVars
    /\ UNCHANGED requestVars
    /\ UNCHANGED consumerVars
    /\ UNCHANGED trackerVars

\* what onBuildFinish leaves in skipRebuildLogs after a build that was not
\* the initial one:  else if (!skipRebuildLogs) { skipRebuildLogs = false; ...
skipAfterRebuild(skip) == IF ~ skip THEN FALSE ELSE skip

\* if (miniOxygen) return;  /  if (!miniOxygen)
serverAssigned(server) == server # <<>>

\* onBuildFinish(), up to its first await
OnBuildFinish(f) ==
    /\ build.state = "building"
    /\ finishing[f].pc = "idle"
    /\ build' = [build EXCEPT !.state = "idle"]
    /\ IF isInitialBuild
       THEN /\ finishing' = [finishing EXCEPT ![f].pc = "copyingFiles"]
            /\ UNCHANGED skipRebuildLogs
       ELSE /\ skipRebuildLogs' = skipAfterRebuild(skipRebuildLogs)
            /\ finishing' = [finishing EXCEPT ![f].pc =
                    IF serverAssigned(miniOxygen) THEN "idle" ELSE "serverBundleExists"]
    /\ UNCHANGED <<isInitialBuild, miniOxygen, startCalls, reloads, builds>>
    /\ UNCHANGED uuidCounter
    /\ UNCHANGED diffVars
    /\ UNCHANGED requestVars
    /\ UNCHANGED consumerVars
    /\ UNCHANGED trackerVars

\* await copyingFiles returns: isInitialBuild = false, then if (!miniOxygen)
FilesCopied(f) ==
    /\ finishing[f].pc = "copyingFiles"
    /\ isInitialBuild' = FALSE
    /\ finishing' = [finishing EXCEPT ![f].pc =
            IF serverAssigned(miniOxygen) THEN "idle" ELSE "serverBundleExists"]
    /\ UNCHANGED <<skipRebuildLogs, miniOxygen, startCalls, build, reloads, builds>>
    /\ UNCHANGED uuidCounter
    /\ UNCHANGED diffVars
    /\ UNCHANGED requestVars
    /\ UNCHANGED consumerVars
    /\ UNCHANGED trackerVars

\* await serverBundleExists() returns: a fatal error without the bundle,
\* else safeStartMiniOxygen() up to await envPromise
ServerBundleChecked(f, exists) ==
    /\ finishing[f].pc = "serverBundleExists"
    /\ finishing' = [finishing EXCEPT ![f].pc =
            IF ~ exists THEN "idle"
            ELSE IF serverAssigned(miniOxygen) THEN "idle"
            ELSE "envPromise"]
    /\ UNCHANGED <<isInitialBuild, skipRebuildLogs, miniOxygen, startCalls, build,
                   reloads, builds>>
    /\ UNCHANGED uuidCounter
    /\ UNCHANGED diffVars
    /\ UNCHANGED requestVars
    /\ UNCHANGED consumerVars
    /\ UNCHANGED trackerVars

\* await envPromise returns: startMiniOxygen(...) is called
StartMiniOxygen(f) ==
    /\ finishing[f].pc = "envPromise"
    /\ startCalls' = startCalls + 1
    /\ finishing' = [finishing EXCEPT ![f] = [pc |-> "startMiniOxygen",
                                              server |-> startCalls + 1]]
    /\ UNCHANGED <<isInitialBuild, skipRebuildLogs, miniOxygen, build, reloads, builds>>
    /\ UNCHANGED uuidCounter
    /\ UNCHANGED diffVars
    /\ UNCHANGED requestVars
    /\ UNCHANGED consumerVars
    /\ UNCHANGED trackerVars

\* await startMiniOxygen(...) returns: miniOxygen is assigned
MiniOxygenStarted(f) ==
    /\ finishing[f].pc = "startMiniOxygen"
    /\ miniOxygen' = <<finishing[f].server>>
    /\ finishing' = [finishing EXCEPT ![f] = IdleCallback]
    /\ UNCHANGED <<isInitialBuild, skipRebuildLogs, startCalls, build, reloads, builds>>
    /\ UNCHANGED uuidCounter
    /\ UNCHANGED diffVars
    /\ UNCHANGED requestVars
    /\ UNCHANGED consumerVars
    /\ UNCHANGED trackerVars

(***************************************************************************)
(* SpecDiff: instrumentEvent on bounded inputs                             *)
(***************************************************************************)
InitDiff ==
    /\ addingLines \in SeqsUpTo(CartLineInputs, MaxAdding)
    /\ prevLines \in Snapshots
    /\ currentLines \in Snapshots
    /\ outcome = <<>>
    /\ uuidCounter = 0
    /\ sessionCartId = NoCart
    /\ carts = [c \in CartIds |-> <<>>]
    /\ cartsCreated = 0
    /\ req = [r \in Reqs |-> IdleReq]
    /\ served = 0
    /\ ConsumersMounted
    /\ TrackerUnmounted
    /\ DevStarting

RunInstrumentEvent ==
    /\ outcome = <<>>
    /\ \E r \in instrumentEvent(addingLines, currentLines, prevLines, randomUUID) :
          outcome' = <<r>>
    /\ uuidCounter' = randomUUID
    /\ UNCHANGED <<addingLines, prevLines, currentLines>>
    /\ UNCHANGED requestVars
    /\ UNCHANGED consumerVars
    /\ UNCHANGED trackerVars
    /\ UNCHANGED devVars

vars == <<addingLines, prevLines, currentLines, outcome, uuidCounter,
          sessionCartId, carts, cartsCreated, req, served,
          pending, submitted, fetcherData, effectRuns, lastEventId,
          onSuccessCalls, confirmedLines, fetchers, stale, memo, optimistic,
          isInitialBuild, skipRebuildLogs, miniOxygen, startCalls, build,
          finishing, reloads, builds>>

NextDiff == RunInstrumentEvent

SpecDiff == InitDiff /\ [][NextDiff]_vars

(***************************************************************************)
(* Spec: requests served one after another on one session                  *)
(***************************************************************************)
Init ==
    /\ addingLines = <<>>
    /\ prevLines = <<>>
    /\ currentLines = <<>>
    /\ outcome = <<>>
    /\ uuidCounter = 0
    /\ sessionCartId = NoCart
    /\ carts = [c \in CartIds |-> <<>>]
    /\ cartsCreated = 0
    /\ req = [r \in Reqs |-> IdleReq]
    /\ served = 0
    /\ ConsumersMounted
    /\ TrackerUnmounted
    /\ DevStarting

\* no request is being served: the next one starts after the last one ended
NoneInFlight == \A r \in Reqs : req[r].pc = "idle"

Next ==
    \/ \E r \in Reqs, form \in LinesAddForms : NoneInFlight /\ BeginLinesAdd(r, form)
    \/ \E r \in Reqs : TransportFailure(r)
    \/ \E r \in Reqs : LinesAddCartCreate(r)
    \/ \E r \in Reqs : LinesAddGetCartLines(r)
    \/ \E r \in Reqs : LinesAddCartLinesAdd(r)
    \/ \E r \in Reqs, form \in RouteForms : NoneInFlight /\ BeginRoute(r, form)
    \/ \E r \in Reqs : RouteCartCreate(r)
    \/ \E r \in Reqs : RouteCartAdd(r)
    \/ \E r \in Reqs : RouteCartRemove(r)
    \/ \E r \in Reqs : RouteCartUpdate(r)
    \/ \E r \in Reqs : RouteDiscount(r)
    \/ \E r \in Reqs : RouteBuyerIdentity(r)
    \/ \E r \in Reqs : RouteBuyerIdentityCreate(r)
    \/ \E r \in Reqs : Finish(r)

Spec == Init /\ [][Next]_vars

(***************************************************************************)
(* SpecConsumers: the two consumers and the responses of their submissions  *)
(***************************************************************************)
NextConsumers ==
    \/ \E c \in Consumers : SubmitAnsweredWithEvent(c)
    \/ \E c \in Consumers : SubmitAnsweredWithErrors(c)
    \/ \E c \in Consumers : Deliver(c)
    \/ FormEffect
    \/ HookEffect

SpecConsumers == Init /\ [][NextConsumers]_vars

(***************************************************************************)
(* SpecOptimistic: the optimistic lines hook under changing inputs          *)
(***************************************************************************)
NextOptimistic ==
    \/ RunOptimisticHook
    \/ \E lns \in ConfirmedInputs : LinesChange(lns)
    \/ \E fs \in FetcherLists : FetchersChange(fs)

SpecOptimistic == Init /\ [][NextOptimistic]_vars

(***************************************************************************)
(* SpecDev: the dev command's watcher callbacks                             *)
(***************************************************************************)
NextDev ==
    \/ \E kind \in FileKinds : OnFileChanged(kind)
    \/ OnBuildStart
    \/ \E f \in DevCallbacks : OnBuildFinish(f)
    \/ \E f \in DevCallbacks : FilesCopied(f)
    \/ \E f \in DevCallbacks, exists \in BOOLEAN : ServerBundleChecked(f, exists)
    \/ \E f \in DevCallbacks : StartMiniOxygen(f)
    \/ \E f \in DevCallbacks : MiniOxygenStarted(f)

SpecDev == Init /\ [][NextDev]_vars

(***************************************************************************)
(* SpecConcurrent: add requests of one session in flight together           *)
(*                                                                         *)
(* Nothing in the actions waits for another request: a request may begin    *)
(* while others await their remote calls, and each reads the session as it  *)
(* is when it begins.                                                      *)
(***************************************************************************)
\* a click on an add-to-cart button posts one line
OneLine(f) == f.lines.kind = "array" /\ Len(f.lines.value) = 1

ConcurrentLinesAddForms ==
    { f \in LinesAddForms : OneLine(f) /\ f.redirectTo = "absent" }

ConcurrentRouteForms ==
    { f \in RouteForms : /\ f.cartAction = "ADD_TO_CART"
                         /\ OneLine(f)
                         /\ f.redirectTo = "absent" }

NextConcurrent ==
    \/ \E r \in Reqs, form \in ConcurrentLinesAddForms : BeginLinesAdd(r, form)
    \/ \E r \in Reqs : LinesAddCartCreate(r)
    \/ \E r \in Reqs : LinesAddGetCartLines(r)
    \/ \E r \in Reqs : LinesAddCartLinesAdd(r)
    \/ \E r \in Reqs, form \in ConcurrentRouteForms : BeginRoute(r, form)
    \/ \E r \in Reqs : RouteCartCreate(r)
    \/ \E r \in Reqs : RouteCartAdd(r)
    \/ \E r \in Reqs : Finish(r)

\* a session without a cart, or one whose cart was created by an earlier
\* request and holds at most one line
InitConcurrent ==
    /\ addingLines = <<>>
    /\ prevLines = <<>>
    /\ currentLines = <<>>
    /\ outcome = <<>>
    /\ uuidCounter = 0
    /\ \/ /\ sessionCartId = NoCart
          /\ carts = [c \in CartIds |-> <<>>]
          /\ cartsCreated = 0
       \/ /\ sessionCartId = 1
          /\ \E held \in { s \in Snapshots : Len(s) <= 1 } :
                carts = [c \in CartIds |-> IF c = 1 THEN held ELSE <<>>]
          /\ cartsCreated = 1
    /\ req = [r \in Reqs |-> IdleReq]
    /\ served = 0
    /\ ConsumersMounted
    /\ TrackerUnmounted
    /\ DevStarting

SpecConcurrent == InitConcurrent /\ [][NextConcurrent]_vars

(***************************************************************************)
(* Properties                                                              *)
(***************************************************************************)
Answered(r) == req[r].pc = "done"
Started(r) == req[r].pc # "idle"
InLinesAdd(r) == req[r].route = "CartLinesAdd"
InRoute(r) == req[r].route = "cart"
RemoteErrors(r) == IF req[r].result = <<>> THEN <<>> ELSE req[r].result[1].errors
TheResponse(r) == req[r].response[1]

\* C1: in the add-lines action, when the remote mutation returned a
\* non-empty errors array the response is exactly {errors: those errors}
\* with no event, instrumentEvent was not run, and in the create flow the
\* session cart id is not set and there is no Set-Cookie header.
C1_ErrorsShortCircuit ==
    \A r \in Reqs :
        (InLinesAdd(r) /\ Started(r) /\ Len(RemoteErrors(r)) > 0) =>
            /\ Answered(r)
            /\ TheResponse(r).body.keys = {"errors"}
            /\ TheResponse(r).body.errors = <<RemoteErrors(r)>>
            /\ TheResponse(r).body.event = <<>>
            /\ ~ req[r].instrumented
            /\ TheResponse(r).setCookie = <<>>
            /\ (req[r].cartId = NoCart =>
                  /\ ~ req[r].sessionSet
                  /\ sessionCartId = NoCart)

C1_Witness ==
    \E r \in Reqs :
        /\ InLinesAdd(r) /\ Answered(r) /\ Len(RemoteErrors(r)) > 0
        /\ req[r].cartId = NoCart
        /\ req[r].calls = <<Call("cartCreate", NoCart)>>

\* C2: with no cart id in the session, non-empty lines and a cartCreate that
\* returns a cart without errors, the add action issues no before-snapshot
\* query, stores the returned cart id in the session, commits it into the
\* Set-Cookie header of the response and, with no redirectTo, answers with
\* a lines_add event whose linesAdded are all the lines of the created cart.
C2_CreateFlow ==
    \A r \in Reqs :
        (/\ InLinesAdd(r) /\ Started(r) /\ req[r].cartId = NoCart
         /\ req[r].result # <<>>
         /\ Len(RemoteErrors(r)) = 0
         /\ req[r].result[1].cart # <<>>) =>
            LET cart == req[r].result[1].cart[1]
            IN  /\ Answered(r)
                /\ req[r].calls = <<Call("cartCreate", NoCart)>>
                /\ req[r].sessionSet
                /\ sessionCartId = cart.id
                /\ TheResponse(r).setCookie = << [cartId |-> cart.id] >>
                /\ (req[r].form.redirectTo = "absent" =>
                      /\ TheResponse(r).status = 200
                      /\ TheResponse(r).body.keys = {"event", "errors"}
                      /\ TheResponse(r).body.event[1].type = "lines_add"
                      /\ TheResponse(r).body.event[1].payload.linesAdded
                           = toDiffingLines(cart.lines))

C2_Witness ==
    \E r \in Reqs :
        /\ InLinesAdd(r) /\ Answered(r) /\ req[r].cartId = NoCart
        /\ req[r].form.redirectTo = "absent"
        /\ req[r].result[1].cart # <<>>
        /\ Len(req[r].result[1].cart[1].lines) = 2
        /\ Len(TheResponse(r).body.event[1].payload.linesAdded) = 2

\* the lines input of a request is absent, empty or not parseable
LinesMissing(field) ==
    \/ field.kind \in {"absent", "empty", "malformed"}
    \/ field.kind = "array" /\ field.value = <<>>

\* the form field that carries the lines of the request's action
LinesInput(r) ==
    IF InRoute(r) /\ req[r].form.cartAction = "REMOVE_FROM_CART"
    THEN req[r].form.linesIds
    ELSE req[r].form.lines

TakesLines(r) ==
    \/ InLinesAdd(r)
    \/ InRoute(r) /\ req[r].form.cartAction \in
                       {"ADD_TO_CART", "UPDATE_CART", "REMOVE_FROM_CART"}

\* C3: when the lines input of an add request (or of the ADD_TO_CART,
\* UPDATE_CART, REMOVE_FROM_CART cases of the cart route) is absent, empty
\* or not parseable, the action aborts before any network call, leaves the
\* session cart id as it was and produces no Set-Cookie header.
C3_NoLinesAborts ==
    \A r \in Reqs :
        (Started(r) /\ TakesLines(r) /\ LinesMissing(LinesInput(r))) =>
            /\ req[r].pc = "aborted"
            /\ req[r].calls = <<>>
            /\ req[r].response = <<>>
            /\ ~ req[r].sessionSet
            /\ req[r].setCookie = <<>>
            /\ sessionCartId = req[r].cartId

C3_Witness ==
    \E r \in Reqs :
        /\ InRoute(r) /\ req[r].form.cartAction = "UPDATE_CART"
        /\ req[r].form.lines = Field("array", <<>>)
        /\ req[r].pc = "aborted"
        /\ req[r].cartId # NoCart

\* C4 (as claimed): in the cart route, REMOVE_FROM_CART, UPDATE_CART and
\* UPDATE_DISCOUNT requested while the session holds no cart id are
\* rejected with a hard failure before the remote mutation is invoked.
C4_MissingCartRejected ==
    \A r \in Reqs :
        (/\ InRoute(r) /\ Started(r) /\ req[r].cartId = NoCart
         /\ req[r].form.cartAction \in
              {"REMOVE_FROM_CART", "UPDATE_CART", "UPDATE_DISCOUNT"}) =>
            /\ req[r].pc = "aborted"
            /\ req[r].calls = <<>>

\* C5: in the cart route, a request whose cartAction is missing or is not
\* one of the five tags aborts: no remote mutation is invoked, the session
\* is not written and no response body is produced.
C5_UnknownActionAborts ==
    \A r \in Reqs :
        (InRoute(r) /\ Started(r) /\ req[r].form.cartAction \notin CartActions) =>
            /\ req[r].pc = "aborted"
            /\ req[r].calls = <<>>
            /\ req[r].response = <<>>
            /\ ~ req[r].sessionSet
            /\ sessionCartId = req[r].cartId

C5_Witness ==
    \E r \in Reqs :
        /\ InRoute(r) /\ req[r].form.cartAction = "EMPTY_CART"
        /\ req[r].pc = "aborted"
        /\ sessionCartId # NoCart

\* C6: over requests served one after another, a session cart id is never
\* replaced by a different one: the only step that changes the session
\* cart id is a cart-create made by a request that found no cart id.
C6_CartIdStable ==
    [][ sessionCartId' # sessionCartId =>
          /\ sessionCartId = NoCart
          /\ cartsCreated' = cartsCreated + 1
          /\ sessionCartId' = cartsCreated'
          /\ \E r \in Reqs :
               /\ req[r].cartId = NoCart
               /\ req[r].calls = <<Call("cartCreate", NoCart)>>
               /\ req'[r].sessionSet ]_vars

\* a request that found a cart id has written the session
C6_Witness ==
    \E r \in Reqs :
        /\ Answered(r) /\ req[r].sessionSet
        /\ req[r].cartId # NoCart
        /\ sessionCartId = req[r].cartId

DiffRan == outcome # <<>>
TheDiff == outcome[1].diff
MerchandiseIdsOf(lines) == { lines[i].merchandiseId : i \in 1..Len(lines) }

\* C7: linesNotAdded is exactly the requested lines, in order, whose
\* merchandise id is not among those of linesAdded; every requested line is
\* either covered by linesAdded or listed in linesNotAdded, never both.
C7_NotAddedIsComplement ==
    DiffRan =>
        LET addedIds == MerchandiseIdsOf(TheDiff.linesAdded)
        IN  /\ TheDiff.linesNotAdded =
                 SelectSeq(addingLines, LAMBDA l : l.merchandiseId \notin addedIds)
            /\ \A i \in 1..Len(addingLines) :
                 (addingLines[i].merchandiseId \in addedIds)
                   # (\E j \in 1..Len(TheDiff.linesNotAdded) :
                        TheDiff.linesNotAdded[j] = addingLines[i])

C7_Witness ==
    /\ DiffRan
    /\ Len(addingLines) = 2
    /\ Len(TheDiff.linesNotAdded) = 1
    /\ addingLines[1].merchandiseId \in MerchandiseIdsOf(TheDiff.linesAdded)

\* msg is what follows the last "/" of id (all of id when it has none)
IsLastSegment(msg, id) ==
    \E k \in 0..Len(id) :
        /\ msg = SubSeq(id, k + 1, Len(id))
        /\ \A i \in (k + 1)..Len(id) : id[i] # "/"
        /\ (k = 0 \/ id[k] = "/")

\* C8: instrumentEvent returns one error per entry of linesNotAdded, with
\* code LINE_NOT_ADDED and as message the last "/"-separated segment of
\* that line's merchandise id, together with a lines_add event carrying
\* the lines added; errors is empty exactly when linesNotAdded is.
C8_ErrorsPerLineNotAdded ==
    DiffRan =>
        LET errors == outcome[1].errors
            event == outcome[1].event
            notAdded == TheDiff.linesNotAdded
        IN  /\ Len(errors) = Len(notAdded)
            /\ \A i \in 1..Len(notAdded) :
                 /\ errors[i].code = "LINE_NOT_ADDED"
                 /\ IsLastSegment(errors[i].message, notAdded[i].merchandiseId)
            /\ event.type = "lines_add"
            /\ event.payload.linesAdded = TheDiff.linesAdded
            /\ (errors = <<>>) = (notAdded = <<>>)

C8_Witness ==
    /\ DiffRan
    /\ Len(outcome[1].errors) = 1
    /\ outcome[1].errors[1].message = <<"2">>
    /\ Len(outcome[1].event.payload.linesAdded) = 1

HasEquivalentIn(prev, line) == \E i \in 1..Len(prev) : comparer(prev[i], line)

HeldBefore(prev, line) ==
    \E i \in 1..Len(prev) :
        /\ prev[i].id = line.id
        /\ prev[i].merchandiseId = line.merchandiseId
        /\ prev[i].quantity >= line.quantity

C10_AddedIsUnmatched ==
    DiffRan =>
        LET prev == toDiffingLines(prevLines)
            next == toDiffingLines(currentLines)
        IN  TheDiff.linesAdded =
                SelectSeq(next, LAMBDA n : ~ HasEquivalentIn(prev, n))

\* C11: when the previous and the current snapshot share no merchandise id,
\* linesAdded is the whole current snapshot (as DiffingLines), in its order.
C11_DisjointAllAdded ==
    DiffRan =>
        LET prev == toDiffingLines(prevLines)
            next == toDiffingLines(currentLines)
        IN  (MerchandiseIdsOf(prev) \cap MerchandiseIdsOf(next) = {}) =>
                TheDiff.linesAdded = next

C11_Witness ==
    /\ DiffRan
    /\ Len(prevLines) > 0
    /\ Len(currentLines) = 2
    /\ MerchandiseIdsOf(toDiffingLines(prevLines))
          \cap MerchandiseIdsOf(toDiffingLines(currentLines)) = {}
    /\ Len(TheDiff.linesAdded) = 2

\* C12: when the previous and the current snapshot are the same sequence of
\* lines, linesAdded is empty and linesNotAdded is every requested line.
C12_SelfDiffAddsNothing ==
    (DiffRan /\ prevLines = currentLines) =>
        /\ TheDiff.linesAdded = <<>>
        /\ TheDiff.linesNotAdded = addingLines

C12_Witness ==
    /\ DiffRan
    /\ prevLines = currentLines
    /\ Len(currentLines) = 2
    /\ Len(addingLines) > 0
    /\ Len(TheDiff.linesNotAdded) = Len(addingLines)

\* the line of next at j is held by prev under the same line id and
\* merchandise id, with a strictly smaller quantity
QuantityIncreased(prev, next, j) ==
    \E i \in 1..Len(prev) :
        /\ prev[i].id = next[j].id
        /\ prev[i].merchandiseId = next[j].merchandiseId
        /\ next[j].quantity > prev[i].quantity

\* C13: a line present in both snapshots under the same line id and
\* merchandise id whose quantity grew is in linesAdded and in the event's
\* payload, and no requested line of that merchandise id is in linesNotAdded
\* or gets a LINE_NOT_ADDED error.
C13_QuantityIncreaseIsAdded ==
    DiffRan =>
        LET prev == toDiffingLines(prevLines)
            next == toDiffingLines(currentLines)
        IN  \A j \in 1..Len(next) :
              QuantityIncreased(prev, next, j) =>
                /\ includes(TheDiff.linesAdded, next[j])
                /\ includes(outcome[1].event.payload.linesAdded, next[j])
                /\ \A k \in 1..Len(addingLines) :
                     addingLines[k].merchandiseId = next[j].merchandiseId =>
                       /\ ~ includes(TheDiff.linesNotAdded, addingLines[k])
                       /\ \A e \in 1..Len(outcome[1].errors) :
                            ~ IsLastSegment(outcome[1].errors[e].message,
                                            next[j].merchandiseId)

C13_Witness ==
    /\ DiffRan
    /\ Len(addingLines) = 1
    /\ Len(prevLines) = 2
    /\ \E j \in 1..Len(currentLines) :
         /\ QuantityIncreased(toDiffingLines(prevLines), toDiffingLines(currentLines), j)
         /\ addingLines[1].merchandiseId = currentLines[j].merchandise.id
    /\ outcome[1].errors = <<>>
    /\ Len(outcome[1].event.payload.linesAdded) = 1

\* C14: with an empty previous snapshot linesAdded is the whole current
\* snapshot; with an empty current snapshot linesAdded is empty and
\* linesNotAdded is every requested line.
C14_EmptySides ==
    DiffRan =>
        /\ (prevLines = <<>>) => TheDiff.linesAdded = toDiffingLines(currentLines)
        /\ (currentLines = <<>>) =>
              /\ TheDiff.linesAdded = <<>>
              /\ TheDiff.linesNotAdded = addingLines

C14_Witness ==
    /\ DiffRan
    /\ prevLines = <<>>
    /\ Len(currentLines) = 2
    /\ Len(TheDiff.linesAdded) = 2

\* the number of times onSuccess was called by consumer c with event id
TimesDelivered(c, id) ==
    Cardinality({ i \in 1..Len(onSuccessCalls[c]) : onSuccessCalls[c][i] = id })

\* C15: each consumer calls onSuccess at most once for any event id, in
\* whatever order the responses of its submissions reach its fetcher and
\* however often its effect runs again on the same fetcher data.
C15_OnSuccessAtMostOnce ==
    \A c \in Consumers : \A id \in 1..uuidCounter : TimesDelivered(c, id) <= 1

\* both consumers ran their effect twice on one response carrying an event,
\* after an earlier response with another event
C15_Witness ==
    \A c \in Consumers :
        /\ Len(onSuccessCalls[c]) = 2
        /\ effectRuns[c] = 2
        /\ dataEventId(fetcherData[c]) = lastEventId[c]
        /\ lastEventId[c] = <<onSuccessCalls[c][2]>>

\* an add-lines request whose mutation returned a cart and no errors
AddedWithoutErrors(r) ==
    /\ InLinesAdd(r)
    /\ req[r].result # <<>>
    /\ RemoteErrors(r) = <<>>

SuppliesLocalRedirect(r) == req[r].form.redirectTo = "/products/x"

\* the resulting cart of request r holds no line of merchandise id m that
\* is new or larger than in the cart the request started from
NotReflected(r, m) ==
    LET prev == IF req[r].prevCart = <<>> THEN <<>>
                ELSE toDiffingLines(req[r].prevCart[1].lines)
        next == toDiffingLines(req[r].result[1].cart[1].lines)
    IN  \A j \in 1..Len(next) :
          next[j].merchandiseId = m => HeldBefore(prev, next[j])

\* the response of r has body {event, errors} and its errors name, with
\* code LINE_NOT_ADDED, every requested line that is not reflected
ReportsLinesNotAdded(r) ==
    LET body == TheResponse(r).body
        lines == parsedArray(req[r].form.lines)
    IN  /\ body.keys = {"event", "errors"}
        /\ body.event # <<>>
        /\ body.errors # <<>>
        /\ \A k \in 1..Len(lines) :
             NotReflected(r, lines[k].merchandiseId) =>
               \E e \in 1..Len(body.errors[1]) :
                 /\ body.errors[1][e].code = "LINE_NOT_ADDED"
                 /\ IsLastSegment(body.errors[1][e].message, lines[k].merchandiseId)

\* C16 (as claimed): every add-lines request, with or without a redirectTo
\* field, whose mutation returned no errors is answered with {event, errors}
\* in which every requested line not reflected in the resulting cart has a
\* LINE_NOT_ADDED error.
C16_NoHiddenNotAdded ==
    \A r \in Reqs :
        AddedWithoutErrors(r) => (Answered(r) /\ ReportsLinesNotAdded(r))

\* C16 (amended): such a request is answered; without a local redirectTo
\* the answer is {event, errors} naming every requested line that is not
\* reflected, and with a local redirectTo it is a redirect without a body
\* for which instrumentEvent was not run.
C16_NotAddedReportedUnlessRedirected ==
    \A r \in Reqs :
        AddedWithoutErrors(r) =>
            /\ Answered(r)
            /\ ~ SuppliesLocalRedirect(r) => ReportsLinesNotAdded(r)
            /\ SuppliesLocalRedirect(r) =>
                  /\ TheResponse(r).body = NoBody
                  /\ TheResponse(r).location = "/products/x"
                  /\ ~ req[r].instrumented

C16_Witness ==
    \E r \in Reqs :
        /\ AddedWithoutErrors(r)
        /\ ~ SuppliesLocalRedirect(r)
        /\ req[r].prevCart # <<>>
        /\ Len(parsedArray(req[r].form.lines)) = 2
        /\ \E k \in 1..2 :
             NotReflected(r, parsedArray(req[r].form.lines)[k].merchandiseId)
        /\ Len(TheResponse(r).body.errors[1]) = 1

\* C17 (as claimed): in both actions a response to a request with a
\* local-path redirectTo is a 303 redirect to that path, also when the
\* remote call returned errors, and a response to a request with no or a
\* non-local redirectTo has status 200 and a JSON body.
C17_RedirectIffLocalPath ==
    \A r \in Reqs :
        Answered(r) =>
            IF SuppliesLocalRedirect(r)
            THEN /\ TheResponse(r).status = 303
                 /\ TheResponse(r).location = req[r].form.redirectTo
            ELSE /\ TheResponse(r).status = 200
                 /\ TheResponse(r).location = "none"
                 /\ TheResponse(r).body.keys # {}

\* request r set the session cart id, and the session held none before
EstablishesCartId(r) ==
    /\ Started(r)
    /\ req[r].cartId = NoCart
    /\ req[r].sessionSet

\* C18: a request that newly establishes the session cart id is answered,
\* with a JSON body or with a redirect, and its response carries a
\* Set-Cookie header holding the session committed with the new cart id.
C18_NewCartIdSetsCookie ==
    \A r \in Reqs :
        EstablishesCartId(r) =>
            /\ Answered(r)
            /\ req[r].result # <<>>
            /\ req[r].result[1].cart # <<>>
            /\ sessionCartId = req[r].result[1].cart[1].id
            /\ TheResponse(r).setCookie = << [cartId |-> sessionCartId] >>

\* a cart route request that created the cart and is answered with a 303
C18_Witness ==
    \E r \in Reqs :
        /\ InRoute(r) /\ EstablishesCartId(r)
        /\ TheResponse(r).status = 303
        /\ TheResponse(r).location = "/products/x"
        /\ TheResponse(r).setCookie # <<>>

UpdatesBuyerIdentity(r) ==
    /\ InRoute(r)
    /\ Started(r)
    /\ req[r].form.cartAction = "UPDATE_BUYER_IDENTITY"

C20_RouteErrorsAreData ==
    \A r \in Reqs :
        (InRoute(r) /\ Len(RemoteErrors(r)) > 0) =>
            /\ Answered(r)
            /\ TheResponse(r).body.keys = {"cart", "errors"}
            /\ TheResponse(r).body.errors = <<RemoteErrors(r)>>

\* the hook has run on the present inputs
HookRan == ~ stale /\ optimistic # <<>>
TheOptimistic == optimistic[1]

AddSubmissions ==
    { i \in 1..Len(fetchers) :
        /\ fetchers[i].submission # <<>>
        /\ fetchers[i].submission[1].action = ACTION_PATH }

\* the optimisticLines field of the first submission to the action path
SubmittedField ==
    LET first == CHOOSE i \in AddSubmissions : \A j \in AddSubmissions : i <= j
    IN  fetchers[first].submission[1].formData.optimisticLines

\* C21: with no fetcher submitting to the action path, or with no
\* optimisticLines field in that submission, the hook returns
\* optimisticLines = [] and optimisticLinesNew = [], whatever the confirmed
\* lines are.
C21_NothingInFlightNothingOptimistic ==
    (HookRan /\ (AddSubmissions = {} \/ SubmittedField.kind = "absent")) =>
        /\ TheOptimistic.optimisticLines = <<>>
        /\ TheOptimistic.optimisticLinesNew = <<>>
        /\ ~ TheOptimistic.threw

C21_Witness ==
    /\ HookRan
    /\ Len(fetchers) = 1
    /\ fetchers[1].submission # <<>>
    /\ AddSubmissions = {}
    /\ confirmedLines.kind = "array"
    /\ Len(confirmedLines.value) = 2
    /\ TheOptimistic.optimisticLines = <<>>

\* C22: when the submission carries optimistic lines and the confirmed
\* lines are empty or not an array, optimisticLinesNew is the whole
\* sequence of optimistic lines, in order.
C22_AllNewWithoutConfirmed ==
    (/\ HookRan
     /\ AddSubmissions # {}
     /\ SubmittedField.kind = "array"
     /\ Len(SubmittedField.value) > 0
     /\ (confirmedLines.kind # "array" \/ confirmedLines.value = <<>>)) =>
        /\ TheOptimistic.optimisticLines = SubmittedField.value
        /\ TheOptimistic.optimisticLinesNew = SubmittedField.value

C22_Witness ==
    /\ HookRan
    /\ AddSubmissions # {}
    /\ confirmedLines = Field("array", <<>>)
    /\ Len(TheOptimistic.optimisticLinesNew) = 2
    /\ TheOptimistic.optimisticLinesNew[1] # TheOptimistic.optimisticLinesNew[2]

\* some confirmed line has the merchandise id of line
MatchesConfirmed(line) ==
    \E i \in 1..Len(confirmedLines.value) :
        /\ line.merchandise.id # UndefinedId
        /\ confirmedLines.value[i].merchandise.id = line.merchandise.id

\* C23 (as claimed): with non-empty confirmed lines, optimisticLinesNew is
\* the optimistic lines, in order, whose merchandise id is that of no
\* confirmed line, for every ordering of the two sequences.
C23_NewIsUnmatched ==
    (/\ HookRan
     /\ AddSubmissions # {}
     /\ SubmittedField.kind = "array"
     /\ confirmedLines.kind = "array"
     /\ Len(confirmedLines.value) > 0) =>
        TheOptimistic.optimisticLinesNew =
            SelectSeq(SubmittedField.value, LAMBDA l : ~ MatchesConfirmed(l))

\* the optimisticLines field the hook reads from the fetchers fs
FieldRead(fs) == optimisticLinesStrOf(useCartLinesAddingFetcher(fs))

\* C24: every run of the hook returns a result its callback gives for the
\* confirmed lines and the submitted payload of that run, never one kept
\* from other inputs, and the run leaves both inputs as they were.
C24_TrackerIsPure ==
    [][ ~ stale' =>
          /\ optimistic' # <<>>
          /\ optimistic'[1] \in
                optimisticCartLinesAdding(FieldRead(fetchers), confirmedLines)
          /\ confirmedLines' = confirmedLines
          /\ fetchers' = fetchers ]_vars

C24_Witness ==
    /\ HookRan
    /\ confirmedLines.kind = "array"
    /\ Len(fetchers) = 2
    /\ memo # <<>>
    /\ memo[1].value = TheOptimistic
    /\ Len(TheOptimistic.optimisticLines) = 2
    /\ Len(TheOptimistic.optimisticLinesNew) = 1

\* an add-lines request that found cart id c in the session and passed the
\* lines invariant
AddsToExistingCart(r) ==
    /\ InLinesAdd(r)
    /\ Started(r)
    /\ req[r].cartId # NoCart
    /\ req[r].failure \notin {"SyntaxError", "No lines to add"}

\* C25: with a cart id c in the session the add action issues getCartLines
\* for c first and cartLinesAdd for c only once that query has returned;
\* the before snapshot of the diff is the cart the query returned, read
\* before the mutation took effect; the session cart id stays c and neither
\* the request nor its response gets a Set-Cookie header.
C25_ReadBeforeMutate ==
    \A r \in Reqs :
        AddsToExistingCart(r) =>
            LET c == req[r].cartId
                issued == req[r].calls
            IN  /\ issued \in { <<Call("getCartLines", c)>>,
                                 <<Call("getCartLines", c), Call("cartLinesAdd", c)>> }
                /\ (Len(issued) = 2) =>
                      /\ req[r].prevCart # <<>>
                      /\ req[r].prevCart[1].id = c
                /\ (req[r].pc = "cartLinesAdd") =>
                      req[r].prevCart[1].lines = carts[c]
                /\ req[r].instrumented =>
                      TheResponse(r).body.event[1].payload.linesAdded \in
                        { d.linesAdded :
                            d \in diffLines(parsedArray(req[r].form.lines),
                                            req[r].prevCart[1].lines,
                                            req[r].result[1].cart[1].lines) }
                /\ sessionCartId = c
                /\ req[r].setCookie = <<>>
                /\ Answered(r) => TheResponse(r).setCookie = <<>>

C25_Witness ==
    \E r \in Reqs :
        /\ AddsToExistingCart(r)
        /\ Answered(r)
        /\ req[r].instrumented
        /\ Len(req[r].calls) = 2
        /\ Len(req[r].prevCart[1].lines) = 1
        /\ Len(req[r].result[1].cart[1].lines) = 2

\* the lines the event of request r reports as added
ReportedAdded(r) == TheResponse(r).body.event[1].payload.linesAdded

RequestedMerchandiseIds(r) ==
    MerchandiseIdsOf(parsedArray(req[r].form.lines))

\* C26 (as claimed): in any interleaving of add-lines requests on one
\* cart, the linesAdded reported to a request hold only merchandise ids the
\* request itself asked to add.
C26_OnlyOwnLinesReported ==
    \A r \in Reqs :
        (InLinesAdd(r) /\ req[r].instrumented) =>
            MerchandiseIdsOf(ReportedAdded(r)) \subseteq RequestedMerchandiseIds(r)

\* C26 (amended): the linesAdded reported to a request are lines of the
\* cart its own mutation returned and include every line of that cart which
\* its own before snapshot does not hold with the same line id, the same
\* merchandise id and at least that quantity, whichever request put it there.
C26_ReportedRelativeToOwnBefore ==
    \A r \in Reqs :
        (InLinesAdd(r) /\ req[r].instrumented) =>
            LET prev == IF req[r].prevCart = <<>> THEN <<>>
                        ELSE toDiffingLines(req[r].prevCart[1].lines)
                next == toDiffingLines(req[r].result[1].cart[1].lines)
            IN  /\ \A i \in 1..Len(ReportedAdded(r)) :
                     \E j \in 1..Len(next) : next[j] = ReportedAdded(r)[i]
                /\ \A j \in 1..Len(next) :
                     ~ HeldBefore(prev, next[j]) =>
                       \E i \in 1..Len(ReportedAdded(r)) : ReportedAdded(r)[i] = next[j]

\* a request is told of a line of a variant it did not ask for
C26_Witness ==
    \E r \in Reqs :
        /\ InLinesAdd(r)
        /\ req[r].instrumented
        /\ req[r].prevCart # <<>>
        /\ ~ (MerchandiseIdsOf(ReportedAdded(r)) \subseteq RequestedMerchandiseIds(r))

\* C27 (as claimed): in any interleaving of add-to-cart requests on a
\* session that starts with no cart id, at most one cart is created, and a
\* request that set the session cart id still finds its cart id there.
C27_OneCartPerSession ==
    /\ cartsCreated <= 1
    /\ \A r \in Reqs :
         (Answered(r) /\ req[r].sessionSet) =>
             sessionCartId = req[r].result[1].cart[1].id

\* the remote mutations request r has issued, by position in its calls
MutationCalls(r) ==
    { i \in 1..Len(req[r].calls) : req[r].calls[i].op # "getCartLines" }

\* C28: an action invocation issues at most one remote mutation and never
\* issues one again; when a remote query or mutation throws, the action
\* ends with that failure, with no event, no response and no Set-Cookie
\* header, and the session cart id is the one the request found.
C28_OneMutationFailuresPropagate ==
    \A r \in Reqs :
        /\ Cardinality(MutationCalls(r)) <= 1
        /\ \A i \in MutationCalls(r) : i = Len(req[r].calls)
        /\ (req[r].failure = "ApiError") =>
              /\ req[r].pc = "aborted"
              /\ req[r].response = <<>>
              /\ ~ req[r].instrumented
              /\ ~ req[r].sessionSet
              /\ req[r].setCookie = <<>>
              /\ sessionCartId = req[r].cartId

\* the mutation of an add to an existing cart threw after the query returned
C28_Witness ==
    \E r \in Reqs :
        /\ req[r].failure = "ApiError"
        /\ req[r].cartId # NoCart
        /\ req[r].prevCart # <<>>
        /\ Cardinality(MutationCalls(r)) = 1
        /\ Len(req[r].calls) = 2

\* C29 (as claimed): across every interleaving of the build-finish
\* callbacks startMiniOxygen is called at most once in a dev session, and
\* every miniOxygen.reload is made on a server that has been started.
C29_OneServerReloadOnStarted ==
    /\ startCalls <= 1
    /\ \A i \in 1..Len(reloads) : serverAssigned(reloads[i].server)

\* C30 (as claimed): once the rebuild that follows a .env change has
\* finished skipRebuildLogs is false again, and a later rebuild caused by
\* another file logs 'Rebuilding' / 'Rebuilt'.
C30_SuppressionIsTemporary ==
    /\ (build.state = "idle" /\ build.cause = "env") => ~ skipRebuildLogs
    /\ (build.state = "building" /\ build.cause = "other" /\ ~ build.initial) =>
          build.logged

====
